---- MODULE Spec2Model ----
(***************************************************************************)
(* Yamaha MusicCast client (src/yamaha-musiccast.js).                      *)
(*                                                                         *)
(* Two parts of the program are modelled:                                  *)
(*   - the endpoint wrappers of the six subsystem clients: every wrapper   *)
(*     builds one request on its client's axios instance and settles the   *)
(*     promise it returned from the answer (the response envelope);        *)
(*   - the event receiver of the facade, YamahaMusicCast: the dgram socket *)
(*     held in #server, its three handlers and setupEventReceiver.         *)
(*                                                                         *)
(* JavaScript runs every callback to completion, so each handler is one    *)
(* action.  axios, dgram and EventEmitter are libraries: they are modelled *)
(* by their documented contract at the places the program calls them.      *)
(* The receiver and the wrappers are modelled from an allocated, not yet   *)
(* set up facade; Setup is the body of its constructor.  How the module is *)
(* loaded and how `new` reaches that body is modelled by Require and New.  *)
(***************************************************************************)
EXTENDS Integers, Sequences, FiniteSets, TLC

VARIABLES
  constructed,  \* setup(ip, eventPort) has run
  ip,           \* YamahaMusicCast.#ip
  eventPort,    \* YamahaMusicCast.#eventPort
  server,       \* YamahaMusicCast.#server: a socket id, 0 for null/undefined
  clients,      \* #system .. #clock: the axios configuration of each client
  sockets,      \* every dgram socket created so far, by id
  errSub,       \* what is subscribed to the facade's 'error' event
  emitted,      \* events the facade has emitted, in order
  received,     \* datagrams the sockets have delivered, in order
  uncaught,     \* exceptions that left a handler uncaught, in order
  alive,        \* the process has not exited
  lastBind,     \* how the last setupEventReceiver call ended
  faults,       \* socket faults raised so far
  calls,        \* the endpoint calls, by call id
  module,       \* how far the evaluation of the module file has come
  attempts      \* the `new YamahaMusicCast(..)` expressions evaluated so far

vars == << constructed, ip, eventPort, server, clients, sockets, errSub,
           emitted, received, uncaught, alive, lastBind, faults, calls,
           module, attempts >>

facadeVars == << constructed, ip, eventPort, clients >>
recvVars == << server, sockets, errSub, emitted, received, uncaught, alive,
               lastBind, faults >>
loadVars == << module, attempts >>

----------------------------------------------------------------------------
\* Bounds of the model.

\* Endpoint calls the caller keeps at the same time.
MaxCalls == 2
\* How far past the limit the names given to setNetworkName go.
NameOver == 2
\* Distinct response bodies the device sends for one response code.
MaxBodies == 1
\* Sockets the receiver creates in one run.
MaxSockets == 2
\* Datagrams delivered in one run.
MaxDatagrams == 1
\* Socket faults raised in one run.
MaxFaults == 1
\* `new` expressions the application evaluates.
MaxAttempts == 3
\* Clients whose own setup has been called again.
MaxResets == 1
\* Datagrams received in a run that follows a stream of notifications.
MaxStream == 2

CallIds == 1..MaxCalls

----------------------------------------------------------------------------
\* JavaScript values the wrappers handle.  Every value is a record of one
\* shape: t is its type, the other fields say which value of that type.
\*   object : a parsed response body; rct/rc are the type and value of its
\*            response_code property, n tells bodies apart
\*   field  : the value of property f of body n
\*   string : a body that is not a JSON object (it has no properties)
\*   null   : a null body
\*   error  : an Error object; e is its code
\*   undefined, none : undefined; no value yet

JsVal(t, rct, rc, f, n, e) ==
  [t |-> t, rct |-> rct, rc |-> rc, f |-> f, n |-> n, e |-> e]

NoValue == JsVal("none", "none", 0, "", 0, "")
Body(rct, rc, n) == JsVal("object", rct, rc, "", n, "")
TextBody(n) == JsVal("string", "none", 0, "", n, "")
NullBody == JsVal("null", "none", 0, "", 0, "")
ErrorVal(e) == JsVal("error", "none", 0, "", 0, e)
Undefined == JsVal("undefined", "none", 0, "", 0, "")

\* Response codes of the device: 0 is success, the others are its errors.
RespCodes == {0, 1, 3}

Bodies ==
  { Body("num", rc, n) : rc \in RespCodes, n \in 1..MaxBodies }
    \cup { Body("str", 0, 1), Body("none", 0, 1), TextBody(1), NullBody,
           Undefined }

\* What axios rejects with: a timeout, a refused connection, a failed DNS
\* lookup, a response whose HTTP status is not 2xx.
TransportErrors == { ErrorVal(e) : e \in {"ECONNABORTED", "ECONNREFUSED", "ENOTFOUND"} }
AxiosErrors == TransportErrors \cup { ErrorVal("ERR_BAD_RESPONSE") }

\* res.<f>: the value of a named property of a body.
Prop(res, f) == JsVal("field", res.rct, res.rc, f, res.n, "")

\* A comparison with == instead of ===: the string "0" counts as success.
IsZeroCode_loose(res) ==
  res.t = "object" /\ res.rct \in {"num", "str"} /\ res.rc = 0

\* Mutant: a test that response_code is present, whatever its value.
IsZeroCode_present(res) == res.t = "object" /\ res.rct # "none"

\* res.response_code === 0: strict equality with the number 0.
IsZeroCode(res) == res.t = "object" /\ res.rct = "num" /\ res.rc = 0

----------------------------------------------------------------------------
\* The endpoint wrappers.  A row is one method: its client, its name, the
\* axios verb, whether the path starts with the zone argument, the path and
\* the property of the body it resolves with ("" for the whole body).

EP(client, method, verb, tmpl, path, field) ==
  [client |-> client, method |-> method, verb |-> verb, tmpl |-> tmpl,
   path |-> path, field |-> field]

\* system: lines 68-902, one row per method (32 methods).
SystemEndpoints ==
  { EP("system", "getDeviceInfo", "GET", "static", "/getDeviceInfo", ""),
    EP("system", "getFeatures", "GET", "static", "/getFeatures", ""),
    EP("system", "getNetworkStatus", "GET", "static", "/getNetworkStatus", ""),
    EP("system", "setWiredLan", "POST", "static", "/setWiredLan", ""),
    EP("system", "setWirelessLan", "POST", "static", "/setWirelessLan", ""),
    EP("system", "setIPSettings", "POST", "static", "/setIpSettings", ""),
    EP("system", "setNetworkName", "POST", "static", "/setNetworkName", ""),
    EP("system", "setAirPlayPin", "POST", "static", "/setAirPlayPin", ""),
    EP("system", "getMacAddressFilter", "GET", "static", "/getMacAddressFilter", "mac_address_filter"),
    EP("system", "setMacAddressFilter", "POST", "static", "/setMacAddressFilter", "mac_address_filter"),
    EP("system", "getNetworkStandby", "GET", "static", "/getNetworkStandby", "network_standby"),
    EP("system", "setNetworkStandby", "GET", "static", "/setNetworkStandby", "network_standby"),
    EP("system", "getBluetoothInfo", "GET", "static", "/getBluetoothInfo", "bluetooth_info"),
    EP("system", "setBluetoothStandby", "GET", "static", "/setBluetoothStandby", "bluetooth_standby"),
    EP("system", "setBluetoothTxSetting", "GET", "static", "/setBluetoothTxSetting", "bluetooth_tx_setting"),
    EP("system", "getBluetoothDeviceList", "GET", "static", "/getBluetoothDeviceList", ""),
    EP("system", "updateBluetoothDeviceList", "GET", "static", "/updateBluetoothDeviceList", ""),
    EP("system", "connectBluetoothDevice", "GET", "static", "/connectBluetoothDevice", ""),
    EP("system", "disconnectBluetoothDevice", "GET", "static", "/disconnectBluetoothDevice", ""),
    EP("system", "getFuncStatus", "GET", "static", "/getFuncStatus", ""),
    EP("system", "setAutoPowerStandby", "GET", "static", "/setAutoPowerStandby", ""),
    EP("system", "setIrSensor", "GET", "static", "/setIrSensor", ""),
    EP("system", "setSpeakerA", "GET", "static", "/setSpeakerA", ""),
    EP("system", "setSpeakerB", "GET", "static", "/setSpeakerB", ""),
    EP("system", "setDimmer", "GET", "static", "/setDimmer", ""),
    EP("system", "setZoneBVolumeSync", "GET", "static", "/setZoneBVolumeSync", ""),
    EP("system", "setHdmiOut1", "GET", "static", "/setHdmiOut1", ""),
    EP("system", "setHdmiOut2", "GET", "static", "/setHdmiOut2", ""),
    EP("system", "getNameText", "GET", "static", "/getNameText", ""),
    EP("system", "setNameText", "POST", "static", "/setNameText", ""),
    EP("system", "getLocationInfo", "GET", "static", "/getLocationInfo", ""),
    EP("system", "sendIrCode", "GET", "static", "/sendIrCode", "") }

\* zone: lines 962-1525, one row per method (22 methods).
ZoneEndpoints ==
  { EP("zone", "getStatus", "GET", "zone", "/getStatus", ""),
    EP("zone", "getSoundProgramList", "GET", "zone", "/getSoundProgramList", ""),
    EP("zone", "setPower", "GET", "zone", "/setPower", ""),
    EP("zone", "setSleep", "GET", "zone", "/setSleep", ""),
    EP("zone", "setVolume", "GET", "zone", "/setVolume", ""),
    EP("zone", "setMute", "GET", "zone", "/setMute", ""),
    EP("zone", "setInput", "GET", "zone", "/setInput", ""),
    EP("zone", "setSoundProgram", "GET", "zone", "/setSoundProgram", ""),
    EP("zone", "set3dSurround", "GET", "zone", "/set3dSurround", ""),
    EP("zone", "setDirect", "GET", "zone", "/setDirect", ""),
    EP("zone", "setPureDirect", "GET", "zone", "/setPureDirect", ""),
    EP("zone", "setEnhancer", "GET", "zone", "/setEnhancer", ""),
    EP("zone", "setToneControl", "GET", "zone", "/setToneControl", ""),
    EP("zone", "setEqualizer", "GET", "zone", "/setEqualizer", ""),
    EP("zone", "setBalance", "GET", "zone", "/setBalance", ""),
    EP("zone", "setDialogueLevel", "GET", "zone", "/setDialogueLevel", ""),
    EP("zone", "setDialogueLift", "GET", "zone", "/setDialogueLift", ""),
    EP("zone", "setClearVoice", "GET", "zone", "/setClearVoice", ""),
    EP("zone", "setSubwooferVolume", "GET", "zone", "/setSubwooferVolume", ""),
    EP("zone", "setBassExtension", "GET", "zone", "/setBassExtension", ""),
    EP("zone", "getSignalInfo", "GET", "zone", "/getSignalInfo", ""),
    EP("zone", "prepareInputChange", "GET", "zone", "/prepareInputChange", "") }

\* tuner: lines 1583-1953, one row per method (15 methods).
TunerEndpoints ==
  { EP("tuner", "getPresetInfo", "GET", "static", "/getPresetInfo", ""),
    EP("tuner", "getPlayInfo", "GET", "static", "/getPlayInfo", ""),
    EP("tuner", "setBand", "GET", "static", "/setBand", ""),
    EP("tuner", "setFreq", "GET", "static", "/setFreq", ""),
    EP("tuner", "recallPreset", "GET", "static", "/recallPreset", ""),
    EP("tuner", "switchPreset", "GET", "static", "/switchPreset", ""),
    EP("tuner", "storePreset", "GET", "static", "/storePreset", ""),
    EP("tuner", "clearPreset", "GET", "static", "/clearPreset", ""),
    EP("tuner", "startAutoPreset", "GET", "static", "/startAutoPreset", ""),
    EP("tuner", "cancelAutoPreset", "GET", "static", "/cancelAutoPreset", ""),
    EP("tuner", "movePreset", "GET", "static", "/movePreset", ""),
    EP("tuner", "startDabInitialScan", "GET", "static", "/startDabInitialScan", ""),
    EP("tuner", "cancelDabInitialScan", "GET", "static", "/cancelDabInitialScan", ""),
    EP("tuner", "setDabTuneAid", "GET", "static", "/setDabTuneAid", ""),
    EP("tuner", "setDabService", "GET", "static", "/setDabService", "") }

\* netusb: lines 2010-2633, one row per method (25 methods).
NetusbEndpoints ==
  { EP("netusb", "getPresetInfo", "GET", "static", "/getPresetInfo", ""),
    EP("netusb", "getPlayInfo", "GET", "static", "/getPlayInfo", ""),
    EP("netusb", "setPlayback", "GET", "static", "/setPlayback", ""),
    EP("netusb", "setPlayPosition", "GET", "static", "/setPlayPosition", ""),
    EP("netusb", "toggleRepeat", "GET", "static", "/toggleRepeat", ""),
    EP("netusb", "toggleShuffle", "GET", "static", "/toggleShuffle", ""),
    EP("netusb", "getListInfo", "GET", "static", "/getListInfo", ""),
    EP("netusb", "setListControl", "GET", "static", "/setListControl", ""),
    EP("netusb", "setSearchString", "GET", "static", "/setSearchString", ""),
    EP("netusb", "recallPreset", "GET", "static", "/recallPreset", ""),
    EP("netusb", "storePreset", "GET", "static", "/storePreset", ""),
    EP("netusb", "clearPreset", "GET", "static", "/clearPreset", ""),
    EP("netusb", "movePreset", "GET", "static", "/movePreset", ""),
    EP("netusb", "getSettings", "GET", "static", "/getSettings", ""),
    EP("netusb", "setQuality", "GET", "static", "/setQuality", ""),
    EP("netusb", "getRecentInfo", "GET", "static", "/getRecentInfo", ""),
    EP("netusb", "recallRecentItem", "GET", "static", "/recallRecentItem", ""),
    EP("netusb", "clearRecentInfo", "GET", "static", "/clearRecentInfo", ""),
    EP("netusb", "managePlay", "GET", "static", "/managePlay", ""),
    EP("netusb", "manageList", "GET", "static", "/manageList", ""),
    EP("netusb", "getPlayDescription", "GET", "static", "/getPlayDescription", ""),
    EP("netusb", "setListSortOption", "GET", "static", "/setListSortOption", ""),
    EP("netusb", "getAccountStatus", "GET", "static", "/getAccountStatus", ""),
    EP("netusb", "switchAccount", "GET", "static", "/switchAccount", ""),
    EP("netusb", "getServiceInfo", "GET", "static", "/getServiceInfo", "") }

\* cd: lines 2690-2804, one row per method (5 methods).
CdEndpoints ==
  { EP("cd", "getPlayInfo", "GET", "static", "/getPlayInfo", ""),
    EP("cd", "setPlayback", "GET", "static", "/setPlayback", ""),
    EP("cd", "toggleTray", "GET", "static", "/toggleTray", ""),
    EP("cd", "toggleRepeat", "GET", "static", "/toggleRepeat", ""),
    EP("cd", "toggleShuffle", "GET", "static", "/toggleShuffle", "") }

\* clock: lines 2861-2989, one row per method (5 methods).
ClockEndpoints ==
  { EP("clock", "getSettings", "GET", "static", "/getSettings", ""),
    EP("clock", "setAutoSync", "GET", "static", "/setAutoSync", ""),
    EP("clock", "setDateAndTime", "GET", "static", "/setDateAndTime", ""),
    EP("clock", "setClockFormat", "GET", "static", "/setClockFormat", ""),
    EP("clock", "setAlarmSettings", "POST", "static", "/setAlarmSettings", "") }
Endpoints ==
  SystemEndpoints \cup ZoneEndpoints \cup TunerEndpoints
    \cup NetusbEndpoints \cup CdEndpoints \cup ClockEndpoints

NoEndpoint == EP("", "", "", "", "", "")

ClientNames == {"system", "zone", "tuner", "netusb", "cd", "clock"}

\* The last segment of each client's baseURL.
BasePath(client) ==
  CASE client = "system" -> "/YamahaExtendedControl/v1/system"
    [] client = "zone" -> "/YamahaExtendedControl/v1"
    [] client = "tuner" -> "/YamahaExtendedControl/v1/tuner"
    [] client = "netusb" -> "/YamahaExtendedControl/v1/netusb"
    [] client = "cd" -> "/YamahaExtendedControl/v1/cd"
    [] client = "clock" -> "/YamahaExtendedControl/v1/clock"

TimeoutMs == 15 * 1000

\* An instance whose X-AppPort is the default event port, whatever is passed.
AxiosCreate_defaultPort(client, host, port) ==
  [made |-> TRUE, host |-> host, httpPort |-> 80, base |-> BasePath(client),
   timeout |-> TimeoutMs, appName |-> "ERDesigns/1.0", appPort |-> 50001]

\* axios.create({ baseURL, timeout, headers }) in a client's setup.
AxiosCreate(client, host, port) ==
  [made |-> TRUE, host |-> host, httpPort |-> 80, base |-> BasePath(client),
   timeout |-> TimeoutMs, appName |-> "ERDesigns/1.0", appPort |-> port]

NoClient ==
  [made |-> FALSE, host |-> "", httpPort |-> 0, base |-> "", timeout |-> 0,
   appName |-> "", appPort |-> 0]

\* Arguments of a call: the zone of a zone method, the name of setNetworkName.
Zones == {"main", "zone2"}
NameLimit == 32
Name(n) == [i \in 1..n |-> "x"]
Names == { Name(n) : n \in {0} \cup ((NameLimit - 1)..(NameLimit + NameOver)) }

\* The request a wrapper hands to its axios instance.
Request(e, cfg, zone, name) ==
  [verb |-> e.verb, host |-> cfg.host, httpPort |-> cfg.httpPort,
   base |-> cfg.base, prefix |-> IF e.tmpl = "zone" THEN zone ELSE "",
   path |-> e.path, timeout |-> cfg.timeout, appName |-> cfg.appName,
   appPort |-> cfg.appPort,
   nameLen |-> IF e.method = "setNetworkName" THEN Len(name) ELSE 0]

\* A promise: pending, or settled with a value.
Settled(state, value) == [state |-> state, value |-> value]

\* resolve/reject on a promise: a settled promise keeps its first outcome.
Settle(p, state, value) ==
  IF p.state = "pending" THEN Settled(state, value) ELSE p

\* Mutant: the limit off by one (>= instead of >).
NameTooLong_offByOne(name) == Len(name) >= NameLimit

\* setNetworkName's check before the request.
NameTooLong(name) == Len(name) > NameLimit

\* Mutant: every wrapper resolves with the whole body.
ResolveValue_whole(res, field) == res

\* The value a wrapper resolves with.
ResolveValue(res, field) == IF field = "" THEN res ELSE Prop(res, field)

\* The .then callback of a wrapper: the response envelope.  Reading
\* response_code of a null or undefined body throws; the throw rejects the
\* promise .then returned, which the .catch callback receives.
ThenCallback(p, res, field) ==
  IF res.t \in {"null", "undefined"}
    THEN [threw |-> TRUE, error |-> ErrorVal("TypeError"), p |-> p]
    ELSE [threw |-> FALSE, error |-> NoValue,
          p |-> IF IsZeroCode(res)
                  THEN Settle(p, "resolved", ResolveValue(res, field))
                  ELSE Settle(p, "rejected", res)]

\* Mutant: reject(error.response), which a transport error does not have.
CatchCallback_response(p, error) ==
  Settle(p, "rejected", IF error.e = "ERR_BAD_RESPONSE" THEN error ELSE Undefined)

\* A .catch callback that would swallow the error and settle nothing.
CatchCallback_swallow(p, error) == p

\* The .catch callback of a wrapper.
CatchCallback(p, error) == Settle(p, "rejected", error)

IdleCall ==
  [state |-> "idle", value |-> NoValue, ep |-> NoEndpoint, zone |-> "",
   nameLen |-> 0, reqs |-> << >>, http |-> "none", got |-> NoValue]

----------------------------------------------------------------------------
\* The event receiver.

\* Local UDP ports; OtherPorts are held by another process.
DefaultEventPort == 50001
Ports == {DefaultEventPort, 50002, 50003}
OtherPorts == {50003}
IPs == {"192.168.1.10", "192.168.1.11"}

\* rinfo of a datagram: the sender's address and port.
Rinfo(address, port) == [address |-> address, port |-> port]
NoRinfo == Rinfo("", 0)
Senders == { Rinfo("192.168.1.10", 41100), Rinfo("192.168.1.77", 5000) }

\* Datagram bodies, as the characters of msg.toString().
TextA1 == << "{", "\"", "a", "\"", ":", "1", "}" >>
TextA2 == << " ", "{", "\"", "a", "\"", ":", " ", "2", "}" >>
TextCut == << "{", "\"", "a", "\"", ":" >>
Texts == {TextA1, TextA2, TextCut}

\* Parsed JSON values: ok is FALSE when JSON.parse throws a SyntaxError.
Json(a) == [ok |-> TRUE, a |-> a]
JsonError == [ok |-> FALSE, a |-> 0]
NoJson == [ok |-> FALSE, a |-> -1]

Digit(ch) ==
  CASE ch = "0" -> 0 [] ch = "1" -> 1 [] ch = "2" -> 2 [] ch = "3" -> 3
    [] ch = "4" -> 4 [] ch = "5" -> 5 [] ch = "6" -> 6 [] ch = "7" -> 7
    [] ch = "8" -> 8 [] ch = "9" -> 9 [] OTHER -> -1

\* JSON whitespace between tokens is skipped.
RECURSIVE SkipSpace(_)
SkipSpace(text) ==
  IF text = << >> THEN << >>
  ELSE IF Head(text) = " " THEN SkipSpace(Tail(text))
  ELSE << Head(text) >> \o SkipSpace(Tail(text))

\* JSON.parse on the documents of this model: an object with the one
\* member "a" whose value is a digit; anything else is a SyntaxError.
JSONParse(text) ==
  LET t == SkipSpace(text)
  IN IF /\ Len(t) = 7
        /\ SubSeq(t, 1, 5) = << "{", "\"", "a", "\"", ":" >>
        /\ Digit(t[6]) >= 0
        /\ t[7] = "}"
       THEN Json(Digit(t[6]))
       ELSE JsonError

\* An event the facade emits to its subscribers.
Event(kind, sock, from, json, err, port) ==
  [kind |-> kind, sock |-> sock, from |-> from, json |-> json, err |-> err,
   port |-> port]

\* A dgram socket.  state: "unbound" (created, its handle open),
\* "bound" (listening), "closed".  binding: bind() was called and has not
\* completed.  bindFailed, faulted: its bind failed, it has emitted 'error'.
\* prior, priorAtCreate: the socket #server held when this one
\* was created, and the state it was in at that moment.
\* handlers: the events a listener is registered for; boundWith: the ones
\* that were registered when bind() was called.
NewSocket(prior, priorAtCreate) ==
  [state |-> "unbound", binding |-> FALSE, port |-> 0, bindFailed |-> FALSE,
   faulted |-> FALSE, prior |-> prior, priorAtCreate |-> priorAtCreate,
   handlers |-> {}, boundWith |-> {}]

\* socket.on(event, handler).
On(sock, event) == [sock EXCEPT !.handlers = @ \cup {event}]

\* socket.bind(port): asynchronous, completes in BindComplete.
SocketBind(sock, port) ==
  [sock EXCEPT !.binding = TRUE, !.port = port, !.boundWith = sock.handlers]

\* socket.close(): throws ERR_SOCKET_DGRAM_NOT_RUNNING on a closed socket.
CloseThrows(sock) == sock.state = "closed"

\* A close that would leave the handle receiving.
SocketClose_leaks(sock) == [sock EXCEPT !.binding = FALSE]

SocketClose(sock) == [sock EXCEPT !.state = "closed", !.binding = FALSE]

StateOf(socks, s) == IF s = 0 THEN "none" ELSE socks[s].state

\* A port is free when no other process and no bound socket holds it.
PortFree(socks, port) ==
  /\ port \notin OtherPorts
  /\ \A t \in DOMAIN socks : ~(socks[t].state = "bound" /\ socks[t].port = port)

\* What a run of a handler or of setupEventReceiver works on.
RS(srv, socks, em, lb) ==
  [server |-> srv, sockets |-> socks, emitted |-> em, lastBind |-> lb,
   threw |-> FALSE, error |-> ""]

Throw(rs, error) == [rs EXCEPT !.threw = TRUE, !.error = error]

\* How a setupEventReceiver call ended.
BindRecord(called, prior, priorBefore, priorAfter, threw, created, port) ==
  [called |-> called, prior |-> prior, priorBefore |-> priorBefore,
   priorAfter |-> priorAfter, threw |-> threw, created |-> created,
   port |-> port]

NoBind == BindRecord(FALSE, 0, "none", "none", FALSE, 0, 0)

\* Mutant: the prior socket is dereferenced and never closed.
ClosePrior_deref(rs) == [rs EXCEPT !.server = 0]

\* if (this.#server) { this.#server.close(); this.#server = null; }
ClosePrior(rs) ==
  IF rs.server = 0 THEN rs
  ELSE IF CloseThrows(rs.sockets[rs.server])
    THEN Throw(rs, "ERR_SOCKET_DGRAM_NOT_RUNNING")
  ELSE [rs EXCEPT !.sockets[rs.server] = SocketClose(@), !.server = 0]

\* A receiver that would bind the new socket first and register the
\* handlers afterwards.
CreateAndBind_bindFirst(rs, prior, port) ==
  LET id == Len(rs.sockets) + 1
      created == NewSocket(prior, StateOf(rs.sockets, prior))
      bound == SocketBind(created, port)
      wired == On(On(On(bound, "error"), "message"), "listening")
  IN [rs EXCEPT !.server = id, !.sockets = Append(rs.sockets, wired)]

\* this.#server = dgram.createSocket('udp4'); the three handlers are
\* registered; this.#server.bind(eventPort).
CreateAndBind(rs, prior, port) ==
  LET id == Len(rs.sockets) + 1
      created == NewSocket(prior, StateOf(rs.sockets, prior))
      wired == On(On(On(created, "error"), "message"), "listening")
  IN [rs EXCEPT !.server = id,
                !.sockets = Append(rs.sockets, SocketBind(wired, port))]

\* The socket, an EventEmitter, emits an event: the registered handler runs;
\* with none registered the event is dropped, and an 'error' is thrown.
SocketEmit(rs, s, event, run) ==
  IF event \in rs.sockets[s].handlers THEN run
  ELSE IF event = "error" THEN Throw(rs, "ERR_UNHANDLED_ERROR")
  ELSE rs

\* Mutant: the new socket is created and bound first, the prior closed last.
SetupEventReceiverRun_closeLate(rs, port) ==
  LET prior == rs.server
      before == StateOf(rs.sockets, prior)
      b == CreateAndBind(rs, prior, port)
      c == IF prior = 0 \/ CloseThrows(b.sockets[prior]) THEN b
           ELSE [b EXCEPT !.sockets[prior] = SocketClose(@)]
  IN [c EXCEPT !.lastBind =
        BindRecord(TRUE, prior, before, StateOf(c.sockets, prior),
                   FALSE, c.server, port)]

\* setupEventReceiver(eventPort).
SetupEventReceiverRun(rs, port) ==
  LET prior == rs.server
      before == StateOf(rs.sockets, prior)
      c == ClosePrior(rs)
  IN IF c.threw
       THEN [c EXCEPT !.lastBind =
               BindRecord(TRUE, prior, before, StateOf(c.sockets, prior),
                          TRUE, 0, port)]
       ELSE LET b == CreateAndBind(c, prior, port)
            IN [b EXCEPT !.lastBind =
                  BindRecord(TRUE, prior, before, StateOf(b.sockets, prior),
                             FALSE, b.server, port)]

\* this.emit(...) of the facade: the event reaches the subscribers.
Emit_prepend(rs, ev) == [rs EXCEPT !.emitted = << ev >> \o @]

Emit(rs, ev) == [rs EXCEPT !.emitted = Append(@, ev)]

\* this.emit('error', error): EventEmitter throws the error when nothing is
\* subscribed to 'error'; a listener runs inside emit, and what it throws
\* leaves emit.  sub = "rebind" is a listener that calls
\* setupEventReceiver(port).
ErrSubs == {"none", "log", "rebind"}
EmitError(rs, s, err, sub, port) ==
  CASE sub = "none" -> Throw(rs, err)
    [] sub = "log" -> Emit(rs, Event("error", s, NoRinfo, NoJson, err, 0))
    [] sub = "rebind" ->
         SetupEventReceiverRun(
           Emit(rs, Event("error", s, NoRinfo, NoJson, err, 0)), port)

\* An error handler that would also drop the reference to the socket.
CloseServer_forget(rs) ==
  IF rs.server = 0 THEN Throw(rs, "TypeError")
  ELSE IF CloseThrows(rs.sockets[rs.server])
    THEN Throw(rs, "ERR_SOCKET_DGRAM_NOT_RUNNING")
  ELSE [rs EXCEPT !.sockets[rs.server] = SocketClose(@), !.server = 0]

\* this.#server.close() of the error handler.
CloseServer(rs) ==
  IF rs.server = 0 THEN Throw(rs, "TypeError")
  ELSE IF CloseThrows(rs.sockets[rs.server])
    THEN Throw(rs, "ERR_SOCKET_DGRAM_NOT_RUNNING")
  ELSE [rs EXCEPT !.sockets[rs.server] = SocketClose(@)]

\* The 'error' handler of socket s.
OnError(rs, s, err, sub, port) ==
  LET e == EmitError(rs, s, err, sub, port)
  IN IF e.threw THEN e ELSE CloseServer(e)

\* Mutant: the event is emitted without the sender's rinfo.
OnMessage_noRinfo(rs, s, text, rinfo) ==
  LET json == JSONParse(text)
  IN IF ~json.ok THEN Throw(rs, "SyntaxError")
     ELSE Emit(rs, Event("message", s, NoRinfo, json, "", 0))

\* A handler that would report a body it cannot parse as an error event.
OnMessage_reportsError(rs, s, text, rinfo) ==
  LET json == JSONParse(text)
  IN IF ~json.ok
       THEN Emit(rs, Event("error", s, NoRinfo, NoJson, "SyntaxError", 0))
       ELSE Emit(rs, Event("message", s, rinfo, json, "", 0))

\* The 'message' handler of socket s.
OnMessage(rs, s, text, rinfo) ==
  LET json == JSONParse(text)
  IN IF ~json.ok THEN Throw(rs, "SyntaxError")
     ELSE Emit(rs, Event("message", s, rinfo, json, "", 0))

\* A handler that would report the default port as the bound address.
OnListening_default(rs, s) ==
  IF rs.server = 0 THEN Throw(rs, "TypeError")
  ELSE IF rs.sockets[rs.server].state = "closed"
    THEN Throw(rs, "ERR_SOCKET_DGRAM_NOT_RUNNING")
  ELSE Emit(rs, Event("listening", s, NoRinfo, NoJson, "", DefaultEventPort))

\* The 'listening' handler of socket s: this.#server.address() is read from
\* the socket #server holds, and throws on a closed socket.
OnListening(rs, s) ==
  IF rs.server = 0 THEN Throw(rs, "TypeError")
  ELSE IF rs.sockets[rs.server].state = "closed"
    THEN Throw(rs, "ERR_SOCKET_DGRAM_NOT_RUNNING")
  ELSE Emit(rs, Event("listening", s, NoRinfo, NoJson, "",
                      rs.sockets[rs.server].port))

----------------------------------------------------------------------------
\* The state machine.

\* An allocated facade on which nothing has run yet.
Fresh ==
  /\ constructed = FALSE
  /\ ip = ""
  /\ eventPort = 0
  /\ server = 0
  /\ clients = [c \in ClientNames |-> NoClient]
  /\ sockets = << >>
  /\ errSub = "none"
  /\ emitted = << >>
  /\ received = << >>
  /\ uncaught = << >>
  /\ alive = TRUE
  /\ lastBind = NoBind
  /\ faults = 0
  /\ calls = [c \in CallIds |-> IdleCall]
  /\ attempts = << >>

Init == Fresh /\ module = "loaded"

Now == RS(server, sockets, emitted, lastBind)

\* The receiver's fields after a run.
Store(rs) ==
  /\ server' = rs.server
  /\ sockets' = rs.sockets
  /\ emitted' = rs.emitted
  /\ lastBind' = rs.lastBind

\* A handler has returned to the event loop: what it threw is an uncaught
\* exception, after which the process exits unless the application handles
\* 'uncaughtException' (survive).
Handled(rs, survive) ==
  /\ Store(rs)
  /\ uncaught' = IF rs.threw THEN Append(uncaught, rs.error) ELSE uncaught
  /\ alive' = IF rs.threw THEN survive ELSE alive

\* setup(ip, eventPort): the fields, the receiver and the six clients.
SetupBody(i, p) ==
  /\ constructed' = TRUE
  /\ ip' = i
  /\ eventPort' = p
  /\ Store(SetupEventReceiverRun(Now, p))
  /\ clients' = [c \in ClientNames |-> AxiosCreate(c, i, p)]
  /\ UNCHANGED << errSub, received, uncaught, alive, faults, calls >>

\* setup(ip, eventPort), the body of the constructor.
Setup(i, p) ==
  /\ ~constructed
  /\ alive
  /\ SetupBody(i, p)
  /\ UNCHANGED loadVars

\* A setupEventReceiver that would also record the new port in #eventPort.
SetupEventReceiver_records(p) ==
  /\ constructed
  /\ alive
  /\ Len(sockets) < MaxSockets
  /\ Store(SetupEventReceiverRun(Now, p))
  /\ eventPort' = p
  /\ UNCHANGED << loadVars, constructed, ip, clients, errSub, received,
                  uncaught, alive, faults, calls >>

\* setupEventReceiver(p) called by the application; what it throws goes to
\* that caller.
SetupEventReceiver(p) ==
  /\ constructed
  /\ alive
  /\ Len(sockets) < MaxSockets
  /\ Store(SetupEventReceiverRun(Now, p))
  /\ UNCHANGED << loadVars, facadeVars, errSub, received, uncaught, alive,
                  faults, calls >>

\* A setter that would carry the address to the clients.
SetIp_propagates(i) ==
  /\ constructed
  /\ alive
  /\ ip' = i
  /\ clients' = [c \in ClientNames |-> AxiosCreate(c, i, eventPort)]
  /\ UNCHANGED << loadVars, constructed, eventPort, recvVars, calls >>

\* set ip(i): the field is assigned and nothing else runs.
SetIp(i) ==
  /\ constructed
  /\ alive
  /\ ip' = i
  /\ UNCHANGED << loadVars, constructed, eventPort, clients, recvVars, calls >>

\* set eventPort(p): the field is assigned and nothing else runs.
SetEventPort(p) ==
  /\ constructed
  /\ alive
  /\ eventPort' = p
  /\ UNCHANGED << loadVars, constructed, ip, clients, recvVars, calls >>

\* The clients whose configuration is not the one the facade's setup made.
Reset(cls) ==
  { c \in ClientNames : cls[c] # AxiosCreate(c, ip, sockets[1].port) }

\* client.setup(i, p), the public method of a client the facade hands out:
\* its axios instance is created again.
ClientSetup(cl, i, p) ==
  /\ constructed
  /\ alive
  /\ LET made == [clients EXCEPT ![cl] = AxiosCreate(cl, i, p)]
     IN /\ Cardinality(Reset(made)) <= MaxResets
        /\ clients' = made
  /\ UNCHANGED << loadVars, constructed, ip, eventPort, recvVars, calls >>

\* The application subscribes to, or unsubscribes from, the 'error' event.
Subscribe(sub) ==
  /\ constructed
  /\ alive
  /\ sub # errSub
  /\ errSub' = sub
  /\ UNCHANGED << loadVars, facadeVars, server, sockets, emitted, received,
                  uncaught, alive, lastBind, faults, calls >>

\* A rebinding subscriber creates a socket: it runs within the bound.
RoomForSub == errSub = "rebind" => Len(sockets) < MaxSockets

\* The bind of socket s completes: the socket is bound and emits
\* 'listening', or the port is taken and it emits 'error'.
BindComplete(s, p, survive) ==
  /\ alive
  /\ s \in DOMAIN sockets
  /\ sockets[s].binding
  /\ sockets[s].state = "unbound"
  /\ IF PortFree(sockets, sockets[s].port)
       THEN LET rs == [Now EXCEPT !.sockets[s].state = "bound",
                                  !.sockets[s].binding = FALSE]
            IN Handled(SocketEmit(rs, s, "listening", OnListening(rs, s)),
                       survive)
       ELSE /\ RoomForSub
            /\ LET rs == [Now EXCEPT !.sockets[s].binding = FALSE,
                                     !.sockets[s].bindFailed = TRUE,
                                     !.sockets[s].faulted = TRUE]
               IN Handled(
                    SocketEmit(rs, s, "error",
                               OnError(rs, s, "EADDRINUSE", errSub, p)),
                    survive)
  /\ UNCHANGED << loadVars, facadeVars, errSub, received, faults, calls >>

\* A bound socket reports a fault of its handle and emits 'error'.
SocketFault(s, p, survive) ==
  /\ alive
  /\ s \in DOMAIN sockets
  /\ sockets[s].state = "bound"
  /\ faults < MaxFaults
  /\ RoomForSub
  /\ faults' = faults + 1
  /\ LET rs == [Now EXCEPT !.sockets[s].faulted = TRUE]
     IN Handled(SocketEmit(rs, s, "error", OnError(rs, s, "EIO", errSub, p)),
                survive)
  /\ UNCHANGED << loadVars, facadeVars, errSub, received, calls >>

\* A datagram arrives on bound socket s and the socket emits 'message';
\* max datagrams arrive in one run.
Deliver(s, text, rinfo, survive, max) ==
  /\ alive
  /\ s \in DOMAIN sockets
  /\ sockets[s].state = "bound"
  /\ Len(received) < max
  /\ received' = Append(received, [sock |-> s, from |-> rinfo, text |-> text])
  /\ Handled(SocketEmit(Now, s, "message", OnMessage(Now, s, text, rinfo)),
             survive)
  /\ UNCHANGED << loadVars, facadeVars, errSub, faults, calls >>

Datagram(s, text, rinfo, survive) ==
  Deliver(s, text, rinfo, survive, MaxDatagrams)

\* A datagram of a stream of notifications.
Stream(s, text, rinfo, survive) ==
  Deliver(s, text, rinfo, survive, MaxStream)

\* A setNetworkName without the return before reject: the request is made
\* after the local rejection.
Invoke_noReturn(c, e, zone, name) ==
  /\ constructed
  /\ alive
  /\ calls[c].state = "idle"
  /\ LET p == Settled("pending", NoValue)
         local == e.method = "setNetworkName" /\ NameTooLong(name)
         q == IF local THEN Settle(p, "rejected", ErrorVal("LocalError")) ELSE p
     IN calls' = [calls EXCEPT ![c] =
          [state |-> q.state, value |-> q.value, ep |-> e,
           zone |-> IF e.tmpl = "zone" THEN zone ELSE "",
           nameLen |-> IF e.method = "setNetworkName" THEN Len(name) ELSE 0,
           reqs |-> << Request(e, clients[e.client], zone, name) >>,
           http |-> "none", got |-> NoValue]]
  /\ UNCHANGED << loadVars, facadeVars, recvVars >>

\* An endpoint wrapper is called: the promise is created and, unless the
\* local check rejects it, one request is handed to axios.
Invoke(c, e, zone, name) ==
  /\ constructed
  /\ alive
  /\ calls[c].state = "idle"
  /\ LET p == Settled("pending", NoValue)
         local == e.method = "setNetworkName" /\ NameTooLong(name)
         q == IF local THEN Settle(p, "rejected", ErrorVal("LocalError")) ELSE p
     IN calls' = [calls EXCEPT ![c] =
          [state |-> q.state, value |-> q.value, ep |-> e,
           zone |-> IF e.tmpl = "zone" THEN zone ELSE "",
           nameLen |-> IF e.method = "setNetworkName" THEN Len(name) ELSE 0,
           reqs |-> IF local THEN << >>
                    ELSE << Request(e, clients[e.client], zone, name) >>,
           http |-> "none", got |-> NoValue]]
  /\ UNCHANGED << loadVars, facadeVars, recvVars >>

\* The caller waits for each call before it makes the next one.
InvokeAlone(c, e, zone, name) ==
  /\ \A d \in CallIds \ {c} : calls[d].state = "idle"
  /\ Invoke(c, e, zone, name)

\* The arguments that matter to endpoint e.
ZonesOf(e) == IF e.tmpl = "zone" THEN Zones ELSE {""}
NamesOf(e) == IF e.method = "setNetworkName" THEN Names ELSE {<< >>}

\* A client that would answer its calls in the order they were made.
Outstanding_inOrder(c) ==
  /\ Len(calls[c].reqs) = 1
  /\ calls[c].http = "none"
  /\ \A d \in CallIds : d < c => calls[d].state # "pending"

\* A request is outstanding: handed to axios and not yet answered.
Outstanding(c) == Len(calls[c].reqs) = 1 /\ calls[c].http = "none"

\* axios fulfils the request of call c with a response whose data is body;
\* the .then callback runs, and the .catch callback if that one threw.
Respond(c, body) ==
  /\ alive
  /\ Outstanding(c)
  /\ LET p == Settled(calls[c].state, calls[c].value)
         t == ThenCallback(p, body, calls[c].ep.field)
         q == IF t.threw THEN CatchCallback(t.p, t.error) ELSE t.p
     IN calls' = [calls EXCEPT ![c].state = q.state, ![c].value = q.value,
                               ![c].http = "response", ![c].got = body]
  /\ UNCHANGED << loadVars, facadeVars, recvVars >>

\* A wrapper that would send its request again when axios rejects it.
Fail_retry(c, error) ==
  /\ alive
  /\ Outstanding(c)
  /\ calls' = [calls EXCEPT ![c].reqs = Append(@, calls[c].reqs[1])]
  /\ UNCHANGED << loadVars, facadeVars, recvVars >>

\* axios rejects the request of call c with error; the .catch callback runs.
Fail(c, error) ==
  /\ alive
  /\ Outstanding(c)
  /\ LET p == Settled(calls[c].state, calls[c].value)
         q == CatchCallback(p, error)
     IN calls' = [calls EXCEPT ![c].state = q.state, ![c].value = q.value,
                               ![c].http = "error", ![c].got = error]
  /\ UNCHANGED << loadVars, facadeVars, recvVars >>

\* The caller has taken the outcome of call c.
Release(c) ==
  /\ alive
  /\ calls[c].state \in {"resolved", "rejected"}
  /\ calls' = [calls EXCEPT ![c] = IdleCall]
  /\ UNCHANGED << loadVars, facadeVars, recvVars >>

\* Loading the module and constructing the facade.

\* The names the file binds by require() before the facade class.
Imports == {"axios", "dgram"}

\* The heritage of the facade: class YamahaMusicCast extends EventEmitter.
Heritage == "EventEmitter"

\* The constructor of the facade, a derived class, calls super().
CallsSuper == FALSE

\* What the host may have put on the global object before the file runs.
Globals == {{}, {"EventEmitter"}}

\* An identifier resolves through the file's bindings or the global object.
Resolves(name, globals) == name \in Imports \cup globals

\* The event port argument of `new` when it is left out.
NoPort == 0
PortArgs == Ports \cup {NoPort}

\* constructor(ipAddress, eventPort = 50001): the default parameter.
PortParam(arg) == IF arg = NoPort THEN DefaultEventPort ELSE arg

Attempt(i, arg, error) == [ip |-> i, arg |-> arg, error |-> error]

InitLoad == Fresh /\ module = "unloaded"

\* require('./yamaha-musiccast'): the file is evaluated from the top.  The
\* class declaration evaluates its heritage; an identifier that does not
\* resolve throws a ReferenceError and nothing is exported.
Require(globals) ==
  /\ module \in {"unloaded", "failed"}
  /\ module' = IF Resolves(Heritage, globals) THEN "loaded" ELSE "failed"
  /\ UNCHANGED << facadeVars, recvVars, calls, attempts >>

\* new YamahaMusicCast(i, arg).  In a derived class `this` is bound by
\* super(); the body reads `this` for this.setup(..), a ReferenceError when
\* super() was not called.
New(i, arg) ==
  /\ module = "loaded"
  /\ ~constructed
  /\ alive
  /\ Len(attempts) < MaxAttempts
  /\ IF CallsSuper
       THEN /\ SetupBody(i, PortParam(arg))
            /\ attempts' = Append(attempts, Attempt(i, arg, ""))
       ELSE /\ attempts' = Append(attempts, Attempt(i, arg, "ReferenceError"))
            /\ UNCHANGED << facadeVars, recvVars, calls >>
  /\ module' = module

\* The event receiver.
Next ==
  \/ \E i \in IPs, p \in Ports : Setup(i, p)
  \/ \E p \in Ports : SetupEventReceiver(p)
  \/ \E sub \in ErrSubs : Subscribe(sub)
  \/ \E s \in 1..MaxSockets, p \in Ports, survive \in BOOLEAN :
       BindComplete(s, p, survive)
  \/ \E s \in 1..MaxSockets, p \in Ports, survive \in BOOLEAN :
       SocketFault(s, p, survive)
  \/ \E s \in 1..MaxSockets, text \in Texts, rinfo \in Senders,
        survive \in BOOLEAN : Datagram(s, text, rinfo, survive)

Spec == Init /\ [][Next]_vars

\* The receiver under a stream of notifications, with rebinding.
NextStream ==
  \/ \E i \in IPs, p \in Ports : Setup(i, p)
  \/ \E p \in Ports : SetupEventReceiver(p)
  \/ \E s \in 1..MaxSockets, p \in Ports, survive \in BOOLEAN :
       BindComplete(s, p, survive)
  \/ \E s \in 1..MaxSockets, text \in Texts, rinfo \in Senders,
        survive \in BOOLEAN : Stream(s, text, rinfo, survive)

SpecStream == Init /\ [][NextStream]_vars

\* The endpoint wrappers, called one after the other.
NextHttp ==
  \/ \E i \in IPs, p \in Ports : Setup(i, p)
  \/ \E c \in CallIds, e \in Endpoints :
       \E zone \in ZonesOf(e), name \in NamesOf(e) : InvokeAlone(c, e, zone, name)
  \/ \E c \in CallIds, body \in Bodies : Respond(c, body)
  \/ \E c \in CallIds, error \in AxiosErrors : Fail(c, error)
  \/ \E c \in CallIds : Release(c)

SpecHttp == Init /\ [][NextHttp]_vars

\* axios settles the promise of every request: with the response, or with
\* an error, at the latest when the 15 s timeout of the instance expires.
Delivers(c) ==
  \/ \E body \in Bodies : Respond(c, body)
  \/ \E error \in AxiosErrors : Fail(c, error)

SpecHttpFair == SpecHttp /\ \A c \in CallIds : WF_vars(Delivers(c))

\* One wrapper of each client: the requests of a client differ from one
\* wrapper to the next in verb and path only.
FacadeEndpoints ==
  { e \in Endpoints :
      \/ e.method = "getPlayInfo"
      \/ e.client = "system" /\ e.method = "getDeviceInfo"
      \/ e.client = "zone" /\ e.method = "getStatus"
      \/ e.client = "clock" /\ e.method = "getSettings" }

\* The facade as the application uses it: its properties, its receiver
\* and calls through its six clients, one call at a time.
NextFacade ==
  \/ \E i \in IPs, p \in Ports : Setup(i, p)
  \/ \E i \in IPs : SetIp(i)
  \/ \E p \in Ports : SetEventPort(p)
  \/ \E p \in Ports : SetupEventReceiver(p)
  \/ \E s \in 1..MaxSockets, p \in Ports, survive \in BOOLEAN :
       BindComplete(s, p, survive)
  \/ \E e \in FacadeEndpoints :
       \E zone \in ZonesOf(e), name \in NamesOf(e) : InvokeAlone(1, e, zone, name)
  \/ \E c \in CallIds, body \in Bodies : Respond(c, body)
  \/ \E c \in CallIds, error \in AxiosErrors : Fail(c, error)
  \/ \E c \in CallIds : Release(c)

SpecFacade == Init /\ [][NextFacade]_vars

\* Wrappers called without waiting for one another, on two of the clients:
\* one that resolves with the whole body and one that unwraps a sub-field.
ConcEndpoints ==
  { e \in Endpoints :
      \/ e.client = "zone" /\ e.method = "getStatus"
      \/ e.client = "system" /\ e.method = "getNetworkStandby" }

NextConc ==
  \/ \E i \in IPs, p \in Ports : Setup(i, p)
  \/ \E c \in CallIds, e \in ConcEndpoints :
       \E zone \in ZonesOf(e), name \in NamesOf(e) : Invoke(c, e, zone, name)
  \/ \E c \in CallIds, body \in Bodies : Respond(c, body)
  \/ \E c \in CallIds, error \in AxiosErrors : Fail(c, error)
  \/ \E c \in CallIds : Release(c)

SpecConc == Init /\ [][NextConc]_vars

\* The clients as objects of their own: their setup method and their calls,
\* one call at a time.
NextClient ==
  \/ \E i \in IPs, p \in Ports : Setup(i, p)
  \/ \E cl \in ClientNames, i \in IPs, p \in Ports : ClientSetup(cl, i, p)
  \/ \E e \in ConcEndpoints :
       \E zone \in ZonesOf(e), name \in NamesOf(e) : InvokeAlone(1, e, zone, name)
  \/ \E c \in CallIds, body \in Bodies : Respond(c, body)
  \/ \E c \in CallIds, error \in AxiosErrors : Fail(c, error)
  \/ \E c \in CallIds : Release(c)

SpecClient == Init /\ [][NextClient]_vars

\* The application loads the module and constructs facades.
NextLoad ==
  \/ \E globals \in Globals : Require(globals)
  \/ \E i \in IPs, arg \in PortArgs : New(i, arg)

SpecLoad == InitLoad /\ [][NextLoad]_vars

----------------------------------------------------------------------------
\* Properties of the endpoint wrappers (checked under SpecHttp).

\* The calls that have been made and not yet taken by the caller.
Made == { c \in CallIds : calls[c].state # "idle" }

\* A completed exchange whose body carries the number rc as response_code.
GotCode(c, rc) ==
  /\ calls[c].http = "response"
  /\ calls[c].got.t = "object"
  /\ calls[c].got.rct = "num"
  /\ calls[c].got.rc = rc

\* The sub-field an endpoint is documented to resolve with, "" for the
\* whole body.
DocumentedField(e) ==
  IF e.client # "system" THEN ""
  ELSE CASE e.method \in {"getMacAddressFilter", "setMacAddressFilter"} ->
              "mac_address_filter"
         [] e.method \in {"getNetworkStandby", "setNetworkStandby"} ->
              "network_standby"
         [] e.method = "getBluetoothInfo" -> "bluetooth_info"
         [] e.method = "setBluetoothStandby" -> "bluetooth_standby"
         [] e.method = "setBluetoothTxSetting" -> "bluetooth_tx_setting"
         [] OTHER -> ""

DocumentedShape(e, body) ==
  IF DocumentedField(e) = "" THEN body
  ELSE JsVal("field", body.rct, body.rc, DocumentedField(e), body.n, "")

\* C1: for every endpoint wrapper, a completed exchange whose body has
\* response_code 0 resolves the promise, and the resolved value is the whole
\* body, or for the endpoints that unwrap one the named sub-field
\* (mac_address_filter, network_standby, bluetooth_info, bluetooth_standby,
\* bluetooth_tx_setting) of that body.
C1_ZeroCodeResolves ==
  \A c \in Made :
    GotCode(c, 0) =>
      /\ calls[c].state = "resolved"
      /\ calls[c].value = DocumentedShape(calls[c].ep, calls[c].got)

\* C1's case: an unwrapping endpoint has resolved with its sub-field.
C1_Witness ==
  \E c \in Made :
    /\ GotCode(c, 0)
    /\ calls[c].ep.method = "setBluetoothTxSetting"
    /\ calls[c].state = "resolved"
    /\ calls[c].value.f = "bluetooth_tx_setting"

\* C2: for every endpoint wrapper, a completed exchange whose body has a
\* nonzero response_code rejects the promise with the full body, the same
\* way for every nonzero code, and the call has issued its one request only.
C2_NonzeroCodeRejects ==
  \A c \in Made :
    \A rc \in RespCodes \ {0} :
      GotCode(c, rc) =>
        /\ calls[c].state = "rejected"
        /\ calls[c].value = calls[c].got
        /\ Len(calls[c].reqs) = 1

\* C2's case: an unwrapping endpoint was answered with code 1 and rejected.
C2_Witness ==
  \E c \in Made :
    /\ GotCode(c, 1)
    /\ calls[c].ep.method = "getNetworkStandby"
    /\ calls[c].state = "rejected"
    /\ calls[c].value.t = "object"

\* C3: for every endpoint wrapper, a transport failure (timeout of the fixed
\* 15 seconds, refused connection, DNS failure) rejects the promise with the
\* transport error object, never a body, a timeout like the others.
C3_TransportErrorRejects ==
  \A c \in Made :
    (calls[c].http = "error" /\ calls[c].got \in TransportErrors) =>
      /\ calls[c].state = "rejected"
      /\ calls[c].value = calls[c].got
      /\ calls[c].value.t = "error"
      /\ calls[c].reqs[1].timeout = 15000

\* C3's case: a call timed out and was rejected with the timeout error.
C3_Witness ==
  \E c \in Made :
    /\ calls[c].http = "error"
    /\ calls[c].got.e = "ECONNABORTED"
    /\ calls[c].state = "rejected"
    /\ calls[c].value.e = "ECONNABORTED"

IsSetNetworkName(c) ==
  calls[c].ep.client = "system" /\ calls[c].ep.method = "setNetworkName"

\* C4: setNetworkName with a name of more than 32 characters rejects with a
\* local error and issues no request; with 32 characters or fewer it issues
\* exactly one POST to /setNetworkName and settles by the response envelope.
C4_SetNetworkName ==
  \A c \in Made :
    IsSetNetworkName(c) =>
      IF calls[c].nameLen > 32
        THEN /\ calls[c].state = "rejected"
             /\ calls[c].value = ErrorVal("LocalError")
             /\ calls[c].reqs = << >>
             /\ calls[c].http = "none"
        ELSE /\ Len(calls[c].reqs) = 1
             /\ calls[c].reqs[1].verb = "POST"
             /\ calls[c].reqs[1].path = "/setNetworkName"
             /\ calls[c].reqs[1].base = "/YamahaExtendedControl/v1/system"
             /\ calls[c].http = "none" => calls[c].state = "pending"
             /\ GotCode(c, 0) =>
                  calls[c].state = "resolved" /\ calls[c].value = calls[c].got
             /\ (\E rc \in RespCodes \ {0} : GotCode(c, rc)) =>
                  calls[c].state = "rejected" /\ calls[c].value = calls[c].got
             /\ calls[c].http = "error" =>
                  calls[c].state = "rejected" /\ calls[c].value = calls[c].got

\* C4's case: a name of 33 characters was rejected before any request.
C4_Witness ==
  \E c \in Made :
    /\ IsSetNetworkName(c)
    /\ calls[c].nameLen = 33
    /\ calls[c].state = "rejected"
    /\ calls[c].reqs = << >>

----------------------------------------------------------------------------
\* Properties of the event receiver (checked under Spec).

SocketIds == DOMAIN sockets

\* The facade has emitted an event of this kind for socket s.
EmittedFor(kind, s) ==
  \E j \in DOMAIN emitted : emitted[j].kind = kind /\ emitted[j].sock = s

\* The value each valid document of the model denotes.
Denotes(text, a) ==
  \/ text = << "{", "\"", "a", "\"", ":", "1", "}" >> /\ a = 1
  \/ text = << " ", "{", "\"", "a", "\"", ":", " ", "2", "}" >> /\ a = 2

\* C5: while the socket is bound, every inbound datagram whose body is valid
\* JSON makes the facade emit a message event that carries the sender's
\* address and port and the parsed JSON value of exactly that datagram.
C5_ValidDatagramEmitsMessage ==
  \A i \in DOMAIN received :
    \A a \in 1..2 :
      Denotes(received[i].text, a) =>
        \E j \in DOMAIN emitted :
          /\ emitted[j].kind = "message"
          /\ emitted[j].sock = received[i].sock
          /\ emitted[j].from = received[i].from
          /\ emitted[j].json = [ok |-> TRUE, a |-> a]

\* C5's case: the document with a = 2 came from the second sender and its
\* message event was emitted.
C5_Witness ==
  \E i \in DOMAIN received, j \in DOMAIN emitted :
    /\ Denotes(received[i].text, 2)
    /\ received[i].from.port = 5000
    /\ emitted[j].kind = "message"
    /\ emitted[j].from.port = 5000
    /\ emitted[j].json.a = 2

\* C6: a setupEventReceiver call made while the socket it holds is bound
\* closes that socket before the new socket is created and bound: the prior
\* socket was closed when the new one was created, and is closed when the
\* call returns.
C6_RebindClosesPriorFirst ==
  (lastBind.called /\ lastBind.priorBefore = "bound") =>
    /\ ~lastBind.threw
    /\ lastBind.created \in SocketIds
    /\ sockets[lastBind.created].prior = lastBind.prior
    /\ sockets[lastBind.created].priorAtCreate = "closed"
    /\ lastBind.priorAfter = "closed"
    /\ sockets[lastBind.prior].state = "closed"

\* C6's case: a rebind was made while the prior socket was bound.
C6_Witness ==
  /\ lastBind.called
  /\ lastBind.priorBefore = "bound"
  /\ lastBind.created \in SocketIds
  /\ sockets[lastBind.created].binding

\* C7: a rebind to a port that is in use raises an error event on the facade
\* and leaves the socket closed, never created but neither bound nor closed
\* (in a process that is still running).
C7_BusyPortRebindClosed ==
  \A s \in SocketIds :
    (alive /\ sockets[s].prior # 0 /\ sockets[s].bindFailed) =>
      /\ EmittedFor("error", s)
      /\ sockets[s].state = "closed"
      /\ sockets[server].state = "closed"

\* C8: on any socket fault the receiver closes the socket and surfaces the
\* fault as an error event, and no new socket appears unless
\* setupEventReceiver is called again.
C8_FaultClosesAndSurfaces ==
  [][ /\ \A s \in DOMAIN sockets' :
           (alive' /\ sockets'[s].faulted) =>
             /\ sockets'[s].state = "closed"
             /\ \E j \in DOMAIN emitted' :
                  emitted'[j].kind = "error" /\ emitted'[j].sock = s
      /\ Len(sockets') > Len(sockets) =>
           /\ lastBind'.called
           /\ lastBind'.created = Len(sockets')
           /\ Len(sockets') = Len(sockets) + 1 ]_vars

\* C9: after a socket error has closed the receiver's socket, a later
\* setupEventReceiver call creates and binds a new socket: a prior socket
\* that is already closed does not prevent it.
C9_RebindAfterErrorSucceeds ==
  (alive /\ lastBind.called /\ lastBind.priorBefore = "closed") =>
    /\ ~lastBind.threw
    /\ lastBind.created \in SocketIds
    /\ server = lastBind.created

\* The steps a socket may take.
Step(from, to) ==
  \/ from = to
  \/ from = "unbound" /\ to = "bound"
  \/ from = "bound" /\ to = "closed"
  \/ from = "unbound" /\ to = "closed"

\* C10: each socket moves only along Unbound -> Bound -> Closed, or
\* Unbound -> Closed; a closed socket is never bound again; a socket that
\* replaces another starts unbound, after the one it replaces was closed.
C10_SocketLifecycle ==
  [][ /\ \A s \in DOMAIN sockets : Step(sockets[s].state, sockets'[s].state)
      /\ \A s \in DOMAIN sockets' \ DOMAIN sockets :
           /\ Step("unbound", sockets'[s].state)
           /\ sockets'[s].state # "bound"
           /\ sockets'[s].prior # 0 =>
                /\ sockets'[s].priorAtCreate = "closed"
                /\ sockets'[sockets'[s].prior].state = "closed" ]_vars

\* C10's case: a socket that replaced a bound one is itself bound, and the
\* one it replaced is closed.
C10_Witness ==
  \E s \in SocketIds :
    /\ sockets[s].state = "bound"
    /\ sockets[s].prior # 0
    /\ lastBind.priorBefore = "bound"
    /\ sockets[sockets[s].prior].state = "closed"

----------------------------------------------------------------------------
\* Properties of loading and construction (checked under SpecLoad).

\* The facade holds a receiver socket for port p and six clients made for
\* host i that advertise p.
Holds(i, p) ==
  /\ constructed
  /\ server \in DOMAIN sockets
  /\ sockets[server].port = p
  /\ sockets[server].state # "closed"
  /\ \A c \in ClientNames :
       /\ clients[c].made
       /\ clients[c].host = i
       /\ clients[c].appPort = p

\* C11: constructing the facade with (device IP, event port) completes
\* without error and leaves it holding a receiver socket for that port,
\* 50001 when the port is omitted, and six clients pointed at that IP that
\* advertise that port.  The module that exports the facade must load for
\* that, and every evaluated `new` must have succeeded.
C11_ConstructionCompletes ==
  /\ module # "failed"
  /\ \A k \in DOMAIN attempts :
       /\ attempts[k].error = ""
       /\ Holds(attempts[k].ip,
                IF attempts[k].arg = NoPort THEN 50001 ELSE attempts[k].arg)

----------------------------------------------------------------------------
\* Properties of the facade, its clients and its receiver together (checked
\* under SpecFacade).

\* C12: assigning the facade's ip or eventPort property changes only the
\* value later read back from that property: the six clients keep the base
\* URL and the X-AppPort header they were constructed with, and the
\* receiver's socket is neither closed nor rebound.
C12_AssignmentChangesOnlyTheField ==
  [][ constructed /\ (ip' # ip \/ eventPort' # eventPort)
        => /\ ip' = ip \/ eventPort' = eventPort
           /\ clients' = clients
           /\ server' = server
           /\ sockets' = sockets
           /\ lastBind' = lastBind
           /\ UNCHANGED << errSub, emitted, received, uncaught, alive,
                           faults, calls >> ]_vars

\* Both properties were assigned values other than the ones the clients
\* were made with, while the socket of the constructor is listening.
C12_Witness ==
  /\ constructed
  /\ ip # clients["system"].host
  /\ eventPort # clients["system"].appPort
  /\ server = 1
  /\ sockets[1].state = "bound"
  /\ sockets[1].port = clients["system"].appPort

\* Call c hands its request to axios in this step.
Issues(c) == calls[c].reqs = << >> /\ calls'[c].reqs # << >>

\* The socket the receiver references is listening on port p.
Listening(p) ==
  /\ server \in DOMAIN sockets
  /\ sockets[server].state = "bound"
  /\ sockets[server].port = p

----------------------------------------------------------------------------
\* Properties of the events the facade forwards (checked under Spec).

\* What the sockets raise in a step: a datagram, a fault or a failed bind, a
\* completed bind.
RaisesMessage == Len(received') = Len(received) + 1
RaisesError ==
  \/ faults' = faults + 1
  \/ \E s \in DOMAIN sockets : ~sockets[s].bindFailed /\ sockets'[s].bindFailed
RaisesListening ==
  \E s \in DOMAIN sockets :
    sockets[s].state = "unbound" /\ sockets'[s].state = "bound"

\* The facade emits exactly one event in the step, of this kind.
ForwardsOne(kind) ==
  /\ Len(emitted') = Len(emitted) + 1
  /\ SubSeq(emitted', 1, Len(emitted)) = emitted
  /\ emitted'[Len(emitted')].kind = kind

\* C14: every message, error and listening event a receiver socket raises is
\* forwarded to the facade's subscribers exactly once, as an event of the
\* same kind that carries the sender and the parsed payload, the fault, or
\* the bound local address; and the facade emits no such event that a
\* socket did not raise.
C14_EventsForwardedOnce ==
  [][ /\ RaisesMessage =>
           /\ ForwardsOne("message")
           /\ emitted'[Len(emitted')].from = received'[Len(received')].from
           /\ \E a \in 1..2 :
                /\ Denotes(received'[Len(received')].text, a)
                /\ emitted'[Len(emitted')].json = [ok |-> TRUE, a |-> a]
      /\ RaisesError =>
           /\ ForwardsOne("error")
           /\ emitted'[Len(emitted')].err \in {"EADDRINUSE", "EIO"}
      /\ RaisesListening =>
           /\ ForwardsOne("listening")
           /\ \E s \in DOMAIN sockets :
                /\ sockets[s].state = "unbound"
                /\ sockets'[s].state = "bound"
                /\ emitted'[Len(emitted')].sock = s
                /\ emitted'[Len(emitted')].port = sockets'[s].port
      /\ ~(RaisesMessage \/ RaisesError \/ RaisesListening) =>
           emitted' = emitted ]_vars

\* The body is none of the valid documents.
Malformed(text) == ~ \E a \in 1..2 : Denotes(text, a)

\* C15: an inbound datagram whose body is not valid JSON produces no message
\* event and no error event on the facade: the parse exception leaves the
\* message handler unhandled, and the receiver does not close the socket.
C15_MalformedDatagram ==
  [][ (RaisesMessage /\ Malformed(received'[Len(received')].text))
        => /\ emitted' = emitted
           /\ uncaught' = Append(uncaught, "SyntaxError")
           /\ sockets' = sockets
           /\ server' = server ]_vars

\* A malformed datagram was delivered: nothing was emitted for it, the
\* SyntaxError was uncaught and the socket it came in on is still bound.
C15_Witness ==
  /\ alive
  /\ Len(received) = 1
  /\ Malformed(received[1].text)
  /\ uncaught = << "SyntaxError" >>
  /\ sockets[received[1].sock].state = "bound"
  /\ \A j \in DOMAIN emitted : emitted[j].kind = "listening"

----------------------------------------------------------------------------
\* No retry (checked under SpecFacade).

\* The exchange of call c completes in this step.
Completes(c) == calls[c].http = "none" /\ calls'[c].http # "none"

\* The bind of socket s fails in this step.
BindFails(s) == ~sockets[s].bindFailed /\ sockets'[s].bindFailed

\* C16: no failure triggers a retry or a reconnection.  One invocation of a
\* wrapper issues at most one HTTP request whatever its outcome (nonzero
\* code, transport error, timeout), and one bind issues at most one bind
\* attempt on its socket: a completed exchange or a failed bind starts no
\* request, no socket and no bind.
C16_NoRetry ==
  [][ /\ \A c \in CallIds :
           /\ Len(calls'[c].reqs) <= 1
           /\ Completes(c) =>
                /\ \A d \in CallIds : calls'[d].reqs = calls[d].reqs
                /\ sockets' = sockets
      /\ \A s \in DOMAIN sockets :
           /\ ~sockets[s].binding => ~sockets'[s].binding
           /\ sockets'[s].port = sockets[s].port
           /\ BindFails(s) =>
                /\ Len(sockets') = Len(sockets)
                /\ \A t \in DOMAIN sockets' : ~sockets'[t].binding
                /\ calls' = calls ]_vars

\* A call was rejected on a timeout after its one request, and the bind of
\* the only socket has failed and is not under way again.
C16_Witness ==
  /\ Len(sockets) = 1
  /\ sockets[1].bindFailed
  /\ ~sockets[1].binding
  /\ \E c \in CallIds :
       /\ calls[c].state = "rejected"
       /\ calls[c].got = ErrorVal("ECONNABORTED")
       /\ Len(calls[c].reqs) = 1

----------------------------------------------------------------------------
\* Concurrent calls (checked under SpecConc).

\* The exchange of call c can complete now, with a response or an error.
CanComplete(c) ==
  ENABLED (\/ \E body \in Bodies : Respond(c, body)
           \/ \E error \in AxiosErrors : Fail(c, error))

\* C17: concurrent endpoint calls are independent.  Whatever calls are in
\* flight, on the same or on different clients, the exchange of each pending
\* one can be the next to complete, so they complete in any order; and the
\* outcome of a call (resolved or rejected, and with what value) is a
\* function of its own endpoint and its own exchange: two calls of one
\* endpoint whose exchanges ended alike have the same outcome, whatever the
\* other calls did and in whatever order.
C17_CallsIndependent ==
  /\ \A c \in CallIds : calls[c].state = "pending" => CanComplete(c)
  /\ \A c \in Made :
       (calls[c].state = "pending") = (calls[c].http = "none" /\ calls[c].reqs # << >>)
  /\ \A c, d \in Made :
       (/\ calls[c].ep = calls[d].ep
        /\ calls[c].http = calls[d].http
        /\ calls[c].got = calls[d].got)
         => /\ calls[c].state = calls[d].state
            /\ calls[c].value = calls[d].value

\* Two calls of one wrapper are in flight on the same client: the second
\* slot's exchange has completed and resolved while the first is pending.
C17_Witness ==
  /\ calls[1].ep = calls[2].ep
  /\ calls[1].ep.method = "getNetworkStandby"
  /\ calls[1].state = "pending"
  /\ calls[2].state = "resolved"

----------------------------------------------------------------------------
\* The receiver's socket (checked under Spec).

\* The sockets that are not closed.
OpenSockets(socks) == { s \in DOMAIN socks : socks[s].state # "closed" }

\* C18: the receiver owns a single UDP socket.  After any sequence of binds,
\* socket errors and inbound messages at most one socket the receiver
\* created is not closed, and the socket the receiver references is
\* replaced only by setupEventReceiver: a step that changes the reference is
\* a setupEventReceiver call that put its newly created socket there.
C18_SingleSocket ==
  [][ /\ Cardinality(OpenSockets(sockets')) <= 1
      /\ server' # server =>
           /\ lastBind' # lastBind
           /\ lastBind'.called
           /\ ~lastBind'.threw
           /\ lastBind'.prior = server
           /\ lastBind'.created = server'
           /\ server' = Len(sockets')
           /\ Len(sockets') = Len(sockets) + 1 ]_vars

\* After a bind, a message, a fault and a second bind, the receiver
\* references its second socket, the only one that is open.
C18_Witness ==
  /\ Len(sockets) = 2
  /\ Len(received) = 1
  /\ faults = 1
  /\ server = 2
  /\ OpenSockets(sockets) = {2}
  /\ sockets[2].state = "bound"

----------------------------------------------------------------------------
\* The base URL of a client (checked under SpecClient).

\* C19: the base URL of a client is fixed for the lifetime of the client
\* instance.  No operation available on the instance and no completion of a
\* call changes the host or the subsystem path its later requests are sent
\* to: once the client is made, no step changes them, and every request is
\* sent to them.
C19_BaseUrlFixed ==
  [][ /\ \A cl \in ClientNames :
           clients[cl].made =>
             /\ clients'[cl].host = clients[cl].host
             /\ clients'[cl].httpPort = clients[cl].httpPort
             /\ clients'[cl].base = clients[cl].base
      /\ \A c \in CallIds :
           Issues(c) =>
             /\ calls'[c].reqs[1].host = clients[calls'[c].ep.client].host
             /\ calls'[c].reqs[1].base = clients[calls'[c].ep.client].base ]_vars

----------------------------------------------------------------------------
\* Termination of the calls (checked under SpecHttpFair).

\* C20: every endpoint call eventually settles.  Given that the HTTP client
\* eventually delivers a response or a transport error for every request,
\* the promise a wrapper returned is eventually resolved or rejected and
\* does not stay pending forever.
C20_EveryCallSettles ==
  \A c \in CallIds :
    (calls[c].state = "pending") ~> (calls[c].state \in {"resolved", "rejected"})

\* A call whose .then callback threw on a null body has settled all the
\* same, through the .catch callback.
C20_Witness ==
  \E c \in CallIds :
    /\ calls[c].http = "response"
    /\ calls[c].got = NullBody
    /\ calls[c].state = "rejected"
    /\ calls[c].reqs[1].timeout = 15000

----------------------------------------------------------------------------
\* Socket errors and rebinding (checked under Spec).

\* Socket s raises 'error' in this step: its bind fails or its handle
\* reports a fault.
ErrorOf(s) ==
  \/ BindFails(s)
  \/ faults' = faults + 1 /\ sockets[s].state = "bound"

\* C21: a subscriber that reacts to the facade's error event by calling
\* setupEventReceiver from inside its handler ends up with a receiver whose
\* newly created socket is still open once the error handling has finished:
\* the receiver's close-on-error step closes the socket that faulted, not
\* the socket that rebind created.
C21_RebindInHandlerSurvives ==
  [][ (RaisesError /\ errSub = "rebind" /\ alive')
        => /\ Len(sockets') = Len(sockets) + 1
           /\ server' = Len(sockets')
           /\ sockets'[server'].state # "closed"
           /\ \A s \in DOMAIN sockets :
                ErrorOf(s) => sockets'[s].state = "closed" ]_vars

\* C22: a socket error is terminal only for the socket instance that raised
\* it.  When a socket that a later bind has replaced raises an error, the
\* replacement socket the receiver holds is not closed: the error of one
\* socket closes no other socket.
C22_ErrorClosesOnlyItsSocket ==
  [][ \A s \in DOMAIN sockets :
        (ErrorOf(s) /\ alive') =>
          \A t \in DOMAIN sockets' \ {s} :
            (t \in DOMAIN sockets => sockets[t].state # "closed")
              => sockets'[t].state # "closed" ]_vars

----------------------------------------------------------------------------
\* The listening event and the handlers (checked under Spec).

\* The positions in the facade's event log of the events of this kind that
\* came from socket s.
EventsOf(kind, s) ==
  { j \in DOMAIN emitted : emitted[j].kind = kind /\ emitted[j].sock = s }

\* C23: for each socket the listening event fires at most once, only after
\* the bind of that socket succeeded and before any message event from that
\* socket, and the address it surfaces is the local port of the socket that
\* became bound, not that of another socket.
C23_ListeningOncePerSocket ==
  \A s \in DOMAIN sockets :
    /\ Cardinality(EventsOf("listening", s)) <= 1
    /\ \A j \in EventsOf("listening", s) :
         /\ sockets[s].state \in {"bound", "closed"}
         /\ ~sockets[s].bindFailed
         /\ ~sockets[s].binding
         /\ emitted[j].port = sockets[s].port
    /\ \A k \in EventsOf("message", s) :
         \E j \in EventsOf("listening", s) : j < k

\* The second socket, bound to another port than the first, has emitted its
\* listening event with its own port and then a message event.
C23_Witness ==
  /\ Len(sockets) = 2
  /\ sockets[1].port # sockets[2].port
  /\ EventsOf("listening", 1) # {}
  /\ \E j \in EventsOf("listening", 2), k \in EventsOf("message", 2) :
       /\ j < k
       /\ emitted[j].port = sockets[2].port

\* The three events of a socket.
SocketEvents == {"error", "message", "listening"}

\* C24: in every bind the error, message and listening handlers are all
\* registered on the new socket before its bind is issued, so no error,
\* message or listening event of that socket occurs while its handler is
\* not registered.
C24_HandlersBeforeBind ==
  \A s \in DOMAIN sockets :
    (sockets[s].binding \/ sockets[s].port # 0) =>
      /\ sockets[s].boundWith = SocketEvents
      /\ sockets[s].handlers = SocketEvents

\* A socket that was bound with its three handlers has raised all three
\* events, and each reached the facade's subscribers.
C24_Witness ==
  \E s \in DOMAIN sockets :
    /\ sockets[s].boundWith = SocketEvents
    /\ \A kind \in SocketEvents : EventsOf(kind, s) # {}

\* C25: on a socket error the faulted socket ends up closed whether or not
\* a subscriber is registered for the facade's error event: the close step
\* is reached in both cases.
C25_ErrorAlwaysCloses ==
  [][ \A s \in DOMAIN sockets :
        (ErrorOf(s) /\ alive' /\ errSub \in {"none", "log"})
          => sockets'[s].state = "closed" ]_vars

----------------------------------------------------------------------------
\* The envelope and the promise (checked under SpecHttp).

\* The body of a completed exchange is an object whose response_code is the
\* number 0.
ZeroCode(body) == body.t = "object" /\ body.rct = "num" /\ body.rc = 0

\* C26: an endpoint call resolves if and only if the response_code of the
\* response body is exactly the integer 0.  A completed exchange whose body
\* has no response_code, or one that is not the number 0, is rejected with
\* the body; one whose body is absent (null or undefined) is rejected
\* rather than left pending.
C26_ResolvesIffZero ==
  \A c \in Made :
    calls[c].http = "response" =>
      /\ (calls[c].state = "resolved") = ZeroCode(calls[c].got)
      /\ ~ZeroCode(calls[c].got) =>
           /\ calls[c].state = "rejected"
           /\ calls[c].got.t \notin {"null", "undefined"} =>
                calls[c].value = calls[c].got
           /\ calls[c].got.t \in {"null", "undefined"} =>
                calls[c].value.t = "error"

\* sendIrCode was answered with a response that has no body: the promise
\* was rejected, with the TypeError the .then callback threw.
C26_Witness ==
  \E c \in Made :
    /\ calls[c].ep.method = "sendIrCode"
    /\ calls[c].http = "response"
    /\ calls[c].got = Undefined
    /\ calls[c].state = "rejected"
    /\ calls[c].value = ErrorVal("TypeError")

\* C27: every promise an endpoint wrapper returns settles at most once and
\* in exactly one way.  For one invocation it is never both resolved and
\* rejected: once settled, its outcome and value stay until the caller has
\* taken them; and the local rejection of setNetworkName is never followed
\* by a network-driven resolve or reject of the same promise, since no
\* request was made for it.
C27_SettlesOnce ==
  [][ \A c \in CallIds :
        /\ calls[c].state \in {"resolved", "rejected"} =>
             \/ calls'[c] = IdleCall
             \/ /\ calls'[c].state = calls[c].state
                /\ calls'[c].value = calls[c].value
        /\ calls'[c].value = ErrorVal("LocalError") =>
             /\ calls'[c].state = "rejected"
             /\ calls'[c].reqs = << >>
             /\ calls'[c].http = "none" ]_vars

\* setNetworkName was rejected locally for a name of 33 characters and no
\* request was made.
C27_Witness ==
  \E c \in Made :
    /\ calls[c].ep.method = "setNetworkName"
    /\ calls[c].nameLen = 33
    /\ calls[c].state = "rejected"
    /\ calls[c].value = ErrorVal("LocalError")
    /\ calls[c].reqs = << >>

----------------------------------------------------------------------------
\* Rebinding and the advertised port (checked under SpecFacade).

\* C28: calling setupEventReceiver(p) after construction changes only the
\* receiver's socket.  The facade's eventPort property and the X-AppPort
\* header of the six clients keep the value they had, so after a rebind to
\* a different port the port advertised to the device is the old one.
C28_RebindKeepsAdvertisedPort ==
  [][ (constructed /\ lastBind' # lastBind)
        => /\ eventPort' = eventPort
           /\ ip' = ip
           /\ clients' = clients
           /\ calls' = calls
           /\ \A cl \in ClientNames : clients'[cl].appPort = sockets[1].port ]_vars

\* The receiver was bound again and listens on another port than the one of
\* construction, which the eventPort property and the header of every
\* client still name.
C28_Witness ==
  /\ server = 2
  /\ Listening(sockets[2].port)
  /\ sockets[2].port # sockets[1].port
  /\ eventPort = sockets[1].port
  /\ \A cl \in ClientNames : clients[cl].appPort = sockets[1].port

----------------------------------------------------------------------------
\* Message events and closed sockets (checked under Spec).

\* C29: the facade emits a message event only for a datagram received on a
\* socket that is bound at that time.  After a socket has been closed, by a
\* rebind or by a socket error, no further message event that originates
\* from it is emitted: the source of every message event is the bound
\* socket the receiver holds, never one that was replaced or closed.
C29_MessagesFromBoundSocketOnly ==
  [][ \A s \in DOMAIN sockets' :
        Cardinality({ j \in DOMAIN emitted' : emitted'[j].kind = "message"
                                              /\ emitted'[j].sock = s })
          > Cardinality(EventsOf("message", s))
        => /\ s \in DOMAIN sockets
           /\ sockets[s].state = "bound"
           /\ s = server
           /\ lastBind.prior # s
           /\ RaisesMessage
           /\ received'[Len(received')].sock = s ]_vars

\* The first socket was closed by a rebind after its message event; the log
\* holds no message event of it after the listening event of its successor,
\* which is bound.
C29_Witness ==
  /\ Len(sockets) = 2
  /\ sockets[1].state = "closed"
  /\ sockets[2].state = "bound"
  /\ EventsOf("message", 1) # {}
  /\ \E j \in EventsOf("listening", 2) :
       \A k \in EventsOf("message", 1) : k < j

----------------------------------------------------------------------------
\* Order of delivery (checked under SpecStream).

IsMessage(ev) == ev.kind = "message"
IsValid(dg) == JSONParse(dg.text).ok
MessageEvents == SelectSeq(emitted, IsMessage)
ValidDatagrams == SelectSeq(received, IsValid)

\* C30: valid notifications are delivered one-for-one and in order.  The
\* message events, in the order they were emitted, are the valid datagrams,
\* in the order they were received: as many of the one as of the other, and
\* the k-th event carries the socket, the sender and the parsed value of
\* the k-th valid datagram, so none is duplicated, dropped or reordered.
C30_DeliveredInOrder ==
  /\ Len(MessageEvents) = Len(ValidDatagrams)
  /\ \A k \in DOMAIN MessageEvents :
       /\ k \in DOMAIN ValidDatagrams
       /\ MessageEvents[k].sock = ValidDatagrams[k].sock
       /\ MessageEvents[k].from = ValidDatagrams[k].from
       /\ MessageEvents[k].json = JSONParse(ValidDatagrams[k].text)
       /\ \E a \in 1..2 : /\ Denotes(ValidDatagrams[k].text, a)
                           /\ MessageEvents[k].json.a = a

\* Two valid datagrams that differ in value and in sender were received, and
\* their two message events were emitted in that order.
C30_Witness ==
  /\ Len(ValidDatagrams) = 2
  /\ Denotes(ValidDatagrams[1].text, 2)
  /\ Denotes(ValidDatagrams[2].text, 1)
  /\ ValidDatagrams[1].from # ValidDatagrams[2].from
  /\ Len(MessageEvents) = 2
  /\ MessageEvents[1].json.a = 2
  /\ MessageEvents[2].json.a = 1

====
